---- MODULE Spec2Model ----
(***************************************************************************)
(* A model of the compartment report converter                             *)
(* (src/apps/compartmentConverter.cpp): the command line, the header and   *)
(* layout phase with its GID partition, the MPI frame dispatcher (rank 0   *)
(* the coordinator, ranks 1..N-1 the workers), the per-frame worker and    *)
(* the verification pass.                                                  *)
(*                                                                         *)
(* Times are C++ floats.  They are modelled as IEEE-754 binary32 values    *)
(* with round-to-nearest-even, a record [m, e] standing for m * 2^e with   *)
(* m = 0 or 2^23 <= m < 2^24, so that the rounding of the code's float     *)
(* arithmetic is part of the model.                                        *)
(***************************************************************************)
EXTENDS Integers, Sequences, FiniteSets, TLC

(***************************************************************************)
(* Bounds of the model.                                                    *)
(***************************************************************************)
MaxRanks == 3
\* the largest world size with an MPI library that does not buffer
MaxLateRanks == 2
MaxPartRanks == 7
MaxPartGids == 31
\* the largest --maxFrames and the longest input report of the full runs
MaxClamp == 2
MaxInFrames == 5
\* the largest --maxFrames of the clamping runs
MaxClampFrames == 10
\* the number of neurons of the full runs
GidCount == 3

(***************************************************************************)
(* Program constants.                                                      *)
(***************************************************************************)
\* the significand width of a C++ float
MantBits == 24
\* the model's stand-in for std::numeric_limits< size_t >::max()
NoMaxFrames == -1
\* log2 of (std::numeric_limits< size_t >::max() + 1)
SizeBits == 64
\* nFrames >> 9
QueueShift == 9
\* std::max( 2, ... )
MinPreQueue == 2
\* the width of an int
IntBits == 32
\* the width of one digit of a size_t held in two
WordBits == 30
\* the model's stand-in for std::numeric_limits< uint64_t >::max()
Sentinel == -1

(***************************************************************************)
(* binary32 arithmetic on non-negative values.                             *)
(***************************************************************************)
RECURSIVE BitLen(_)
BitLen(n) == IF n = 0 THEN 0 ELSE 1 + BitLen(n \div 2)

RECURSIVE TrailingZeros(_)
TrailingZeros(n) == IF n % 2 = 1 THEN 0 ELSE 1 + TrailingZeros(n \div 2)

FZero == [m |-> 0, e |-> 0]

\* The float nearest to M * 2^e, ties to even.
FRound(M, e) ==
    IF M = 0 THEN FZero
    ELSE LET len == BitLen(M) IN
         IF len <= MantBits
         THEN [m |-> M * 2^(MantBits - len), e |-> e - (MantBits - len)]
         ELSE LET k    == len - MantBits
                  q    == M \div 2^k
                  r    == M % 2^k
                  half == 2^(k - 1)
                  q2   == IF r > half \/ (r = half /\ q % 2 = 1)
                          THEN q + 1 ELSE q
              IN  IF q2 = 2^MantBits
                  THEN [m |-> 2^(MantBits - 1), e |-> e + k + 1]
                  ELSE [m |-> q2, e |-> e + k]

\* int -> float
FromInt(n) == FRound(n, 0)

\* size_t -> float; size_t max rounds to 2^64
FromSizeT(n) ==
    IF n = NoMaxFrames
    THEN [m |-> 2^(MantBits - 1), e |-> SizeBits - (MantBits - 1)]
    ELSE FRound(n, 0)

FLess(a, b) ==
    IF b.m = 0 THEN FALSE
    ELSE IF a.m = 0 THEN TRUE
    ELSE a.e < b.e \/ (a.e = b.e /\ a.m < b.m)

\* std::min( a, b ): b < a ? b : a
FMin(a, b) == IF FLess(b, a) THEN b ELSE a

\* a * b, where a has a short significand (an integer converted to float)
FMul(a, b) ==
    IF a.m = 0 \/ b.m = 0 THEN FZero
    ELSE LET z == TrailingZeros(a.m)
         IN  FRound((a.m \div 2^z) * b.m, a.e + z + b.e)

\* extra low bits kept exactly by FAdd and FSub; what is below is a sticky bit
GuardBits == 5

FAdd(a, b) ==
    IF a.m = 0 THEN b
    ELSE IF b.m = 0 THEN a
    ELSE LET hi == IF FLess(a, b) THEN b ELSE a
             lo == IF FLess(a, b) THEN a ELSE b
             d  == hi.e - lo.e
         IN  IF d <= GuardBits
             THEN FRound(hi.m * 2^d + lo.m, lo.e)
             ELSE IF d >= MantBits + 2 THEN hi
             ELSE LET s      == d - GuardBits
                      ls     == lo.m \div 2^s
                      sticky == IF lo.m % 2^s = 0 THEN 0 ELSE 1
                  IN  FRound(2 * (hi.m * 2^GuardBits + ls) + sticky,
                             lo.e + s - 1)

\* a - b for a >= b
FSub(a, b) ==
    IF b.m = 0 THEN a
    ELSE LET d == a.e - b.e
         IN  IF d <= GuardBits
             THEN FRound(a.m * 2^d - b.m, b.e)
             ELSE IF d >= MantBits + 2 THEN a
             ELSE LET s      == d - GuardBits
                      ls     == b.m \div 2^s
                      sticky == IF b.m % 2^s = 0 THEN 0 ELSE 1
                  IN  FRound(2 * (a.m * 2^GuardBits - ls) - sticky,
                             b.e + s - 1)

RECURSIVE LongDiv(_, _, _, _)
LongDiv(r, d, n, q) ==
    IF n = 0 THEN [q |-> q, r |-> r]
    ELSE IF 2 * r >= d THEN LongDiv(2 * r - d, d, n - 1, 2 * q + 1)
    ELSE LongDiv(2 * r, d, n - 1, 2 * q)

\* a / b for b > 0
FDiv(a, b) ==
    IF a.m = 0 THEN FZero
    ELSE LET qr     == LongDiv(a.m % b.m, b.m, MantBits + 1, a.m \div b.m)
             sticky == IF qr.r = 0 THEN 0 ELSE 1
         IN  FRound(2 * qr.q + sticky, a.e - b.e - (MantBits + 1) - 1)

\* float -> size_t (truncation)
FTrunc(a) ==
    IF a.m = 0 THEN 0
    ELSE IF a.e >= 0 THEN a.m * 2^a.e
    ELSE IF 0 - a.e >= MantBits THEN 0
    ELSE a.m \div 2^(0 - a.e)

\* the float nearest to n / 1000
FromMilli(n) == FDiv(FromInt(n), FromInt(1000))

(***************************************************************************)
(* The state.                                                              *)
(*   vm        the parsed command line (the same on every rank)            *)
(*   inMs      the input report's start, end and step as written by the    *)
(*             simulation, in thousandths of the time unit; the program    *)
(*             sees them as floats (start, step, inEnd below)              *)
(*   counts    in.getCompartmentCounts(), one sequence per neuron          *)
(*   nRanks    mpi.getSize()                                               *)
(*   missing   the frames of the input report that its reader cannot     *)
(*             load (loadFrame returns null for them)                      *)
(*   mpiEager  whether the MPI library buffers a one-int message when the  *)
(*             send is posted (TRUE), or reads the send buffer and         *)
(*             completes the send only when the receive is matched (FALSE) *)
(*   pc        where each rank is in main                                  *)
(*   exitCode  what main returned (or what ::exit was given) on each rank  *)
(*   end, nFrames, i, frame, framesDone                                    *)
(*             main's locals of these names on each rank                   *)
(*   source    status.MPI_SOURCE on rank 0                                 *)
(*   calls     the calls each rank made on its writer `to`, in order       *)
(*   chan      the FRAME messages sent to each rank and not yet received,  *)
(*             in send order (rank 0 never receives one)                   *)
(*   doneChan  the FRAME_DONE messages each worker sent and rank 0 has not *)
(*             yet received, in send order                                 *)
(*   requests  the keys of rank 0's map of send requests                   *)
(*   matched   the keys of the FRAME sends whose message was received      *)
(*   clientRequest  each worker's request: "uninit", "active" or "null"    *)
(*   arrived   the ranks that entered MPI_Barrier                          *)
(*   result    the output report as re-opened for the comparison           *)
(***************************************************************************)
VARIABLES vm, inMs, counts, missing, nRanks, mpiEager, pc, exitCode, end, nFrames, i,
          frame, framesDone, source, calls, chan, doneChan, requests,
          matched, clientRequest, arrived, result

cfgVars == <<vm, inMs, counts, missing, nRanks, mpiEager>>
locVars == <<end, nFrames, i, frame, framesDone, source>>
mpiVars == <<chan, doneChan, requests, matched, clientRequest, arrived>>
outVars == <<calls, result>>
vars == <<cfgVars, pc, exitCode, locVars, outVars, mpiVars>>

Ranks == 0 .. nRanks - 1
Workers == 1 .. nRanks - 1

\* in.getStartTime(), in.getTimestep(), in.getEndTime()
start == FromMilli(inMs.start)
step  == FromMilli(inMs.step)
inEnd == FromMilli(inMs.end)

\* gids.size(); neurons are named by their index in the GID set
gidCount == Len(counts)

\* const size_t maxFrames
maxFrames == vm.maxFrames

(***************************************************************************)
(* The input report's layout: neuron i has the section counts              *)
(* LayoutPattern[i mod 3]; sections are laid out one after the other in    *)
(* neuron order and a section without compartments has the sentinel        *)
(* offset.                                                                 *)
(***************************************************************************)
LayoutPattern == << <<2>>, <<1, 0, 2>>, <<2, 1>> >>

CountsFor(G) == [n \in 1 .. G |-> LayoutPattern[((n - 1) % 3) + 1]]

RECURSIVE SumSeq(_)
SumSeq(s) == IF s = <<>> THEN 0 ELSE Head(s) + SumSeq(Tail(s))

\* getNumCompartments( index ) of a report with the counts c
NumCompartments(c, index) == SumSeq(c[index + 1])

RECURSIVE BaseOffset(_, _)
BaseOffset(c, index) ==
    IF index = 0 THEN 0
    ELSE BaseOffset(c, index - 1) + NumCompartments(c, index - 1)

\* getFrameSize() of a report with the counts c
FrameSize(c) == BaseOffset(c, Len(c))

\* getOffsets() of a report with the counts c
OffsetsOf(c) ==
    [n \in 1 .. Len(c) |->
        [j \in 1 .. Len(c[n]) |->
            IF c[n][j] = 0 THEN Sentinel
            ELSE BaseOffset(c, n - 1) + SumSeq(SubSeq(c[n], 1, j - 1))]]

\* in.getOffsets()
offsets == OffsetsOf(counts)

\* the number of frames the input report holds
InFrames == FTrunc(FDiv(FSub(inEnd, start), step))

\* the float 0.5
FHalf == [m |-> 2^(MantBits - 1), e |-> 0 - MantBits]

\* the index of the frame a reader snaps the timestamp t >= start to
SnapFrame(t) == FTrunc(FAdd(FDiv(FSub(t, start), step), FHalf))

\* the voltages of the input's frame f: position p holds the value f * size + p
InFrame(f) == [p \in 1 .. FrameSize(counts) |-> f * FrameSize(counts) + (p - 1)]

\* what a null floatsPtr stands for (no voltage of the model is negative)
NullFrame == <<-1>>

\* in.loadFrame( t ): the frame, or null when the report has none at t
InLoadFrame(t) ==
    IF SnapFrame(t) < InFrames /\ SnapFrame(t) \notin missing
    THEN InFrame(SnapFrame(t)) ELSE NullFrame

(***************************************************************************)
(* main, lines 95-154: the command line, --help, --version, the input URI  *)
(* and --dump.                                                             *)
(***************************************************************************)
Exit(r, code) ==
    /\ pc' = [pc EXCEPT ![r] = "exited"]
    /\ exitCode' = [exitCode EXCEPT ![r] = code]

\* a variant that converts although --dump is given
ParseWithoutDump(r) ==
    /\ pc[r] = "start"
    /\ IF vm.parseError THEN Exit(r, "EXIT_FAILURE")
       ELSE IF vm.help THEN Exit(r, "EXIT_SUCCESS")
       ELSE IF vm.version THEN Exit(r, "EXIT_SUCCESS")
       ELSE IF ~vm.input THEN Exit(r, "EXIT_FAILURE")
       ELSE pc' = [pc EXCEPT ![r] = "header"] /\ UNCHANGED exitCode
    /\ UNCHANGED <<cfgVars, locVars, outVars, mpiVars>>

Parse(r) ==
    /\ pc[r] = "start"
    /\ IF vm.parseError THEN Exit(r, "EXIT_FAILURE")
       ELSE IF vm.help THEN Exit(r, "EXIT_SUCCESS")
       ELSE IF vm.version THEN Exit(r, "EXIT_SUCCESS")
       ELSE IF ~vm.input THEN Exit(r, "EXIT_FAILURE")
       ELSE IF vm.dump THEN Exit(r, "EXIT_SUCCESS")
       ELSE pc' = [pc EXCEPT ![r] = "header"] /\ UNCHANGED exitCode
    /\ UNCHANGED <<cfgVars, locVars, outVars, mpiVars>>

(***************************************************************************)
(* main, lines 156-172: the clamped end, the writer and its header.        *)
(***************************************************************************)
\* const float maxEnd = start + maxFrames * step
maxEnd == FAdd(start, FMul(FromSizeT(maxFrames), step))

\* end = std::min( end, maxEnd )
ClampedEnd == FMin(inEnd, maxEnd)

WriteHeader(r) ==
    /\ pc[r] = "header"
    /\ end' = [end EXCEPT ![r] = ClampedEnd]
    /\ calls' = [calls EXCEPT ![r] =
                    Append(@, [op |-> "writeHeader", start |-> start,
                               end |-> ClampedEnd, step |-> step])]
    /\ pc' = [pc EXCEPT ![r] = "layout"]
    /\ UNCHANGED <<cfgVars, exitCode, nFrames, i, frame, framesDone, source,
                   result,
                   mpiVars>>

(***************************************************************************)
(* main, lines 174-192: the GID partition and the frame count.             *)
(***************************************************************************)
\* const float range = float( gids.size( )) / float( nRanks )
range == FDiv(FromSizeT(gidCount), FromInt(nRanks))

\* const size_t startGID = rank * range
startGID(rank) == FTrunc(FMul(FromInt(rank), range))

\* const size_t endGID = ( rank + 1 ) * range
endGID(rank) == FTrunc(FMul(FromInt(rank + 1), range))

\* a variant that walks the GID set from its end
LayoutCallDescending(first, last, index) ==
    IF gidCount - 1 - index < first \/ gidCount - 1 - index >= last
    THEN [op |-> "addGID", gid |-> gidCount - 1 - index]
    ELSE [op |-> "writeCompartments", gid |-> gidCount - 1 - index,
          counts |-> counts[gidCount - index]]

\* the writer call the BOOST_FOREACH body makes for the gid at index
LayoutCall(first, last, index) ==
    IF index < first \/ index >= last
    THEN [op |-> "addGID", gid |-> index]
    ELSE [op |-> "writeCompartments", gid |-> index,
          counts |-> counts[index + 1]]

\* const size_t nFrames = (end - start) / step
FrameCount(e) == FTrunc(FDiv(FSub(e, start), step))

WriteLayout(r) ==
    /\ pc[r] = "layout"
    /\ LET first == startGID(r)
           last  == endGID(r)
       IN  calls' = [calls EXCEPT ![r] =
               @ \o [k \in 1 .. gidCount |-> LayoutCall(first, last, k - 1)]]
    /\ nFrames' = [nFrames EXCEPT ![r] = FrameCount(end[r])]
    /\ pc' = [pc EXCEPT ![r] = "check"]
    /\ UNCHANGED <<cfgVars, exitCode, end, i, frame, framesDone, source,
                   result,
                   mpiVars>>

(***************************************************************************)
(* main, lines 194-221: the pre-queue depth, the check for more processes  *)
(* than work, and rank 0's pre-queued FRAME sends.                         *)
(***************************************************************************)
Max(a, b) == IF a >= b THEN a ELSE b

\* A size_t too wide for one integer of the model is held as two digits:
\* the value is hi * 2^WordBits + lo with lo < 2^WordBits.
Wide(n) == [hi |-> n \div 2^WordBits, lo |-> n % 2^WordBits]

\* nFrames>>9 on a size_t
ShiftRight(x) ==
    [hi |-> x.hi \div 2^QueueShift,
     lo |-> (x.hi % 2^QueueShift) * 2^(WordBits - QueueShift)
                + x.lo \div 2^QueueShift]

\* int( ... ) of a size_t: the low IntBits bits, read as two's complement
ToInt(x) ==
    LET top == x.hi % 2^(IntBits - WordBits)
    IN  IF top < 2^(IntBits - WordBits - 1)
        THEN top * 2^WordBits + x.lo
        ELSE (top - 2^(IntBits - WordBits)) * 2^WordBits + x.lo

\* const int preQueue = std::max( 2, int( nFrames>>9 ) ), nFrames a size_t
PreQueueOf(x) == Max(MinPreQueue, ToInt(ShiftRight(x)))

\* the same for an nFrames that one integer of the model holds
preQueue(n) == PreQueueOf(Wide(n))

\* a variant that counts rank 0 among the workers
startFrameAllRanks(n) == nRanks * preQueue(n)

\* const size_t startFrame = (nRanks-1) * preQueue
startFrame(n) == (nRanks - 1) * preQueue(n)

\* a variant that also rejects startFrame = nFrames
TooManyWorkersOrEqual(n) == startFrame(n) >= n

\* startFrame > nFrames
TooManyWorkers(n) == startFrame(n) > n

CheckWorkers(r) ==
    /\ pc[r] = "check"
    /\ IF TooManyWorkers(nFrames[r])
       THEN Exit(r, "EXIT_FAILURE") /\ UNCHANGED i
       ELSE /\ pc' = [pc EXCEPT ![r] = IF r = 0 THEN "prequeue" ELSE "loop"]
            /\ i' = [i EXCEPT ![r] = startFrame(nFrames[r])]
            /\ UNCHANGED exitCode
    /\ UNCHANGED <<cfgVars, end, nFrames, frame, framesDone, source, outVars,
                   mpiVars>>

\* the pre-queue with the worker's rank taken as its position
PreQueueFrameByRank(w, j) == w * preQueue(nFrames[0]) + j

\* const int frame = (i-1) * preQueue + j, for worker w = i and j
PreQueueFrame(w, j) == (w - 1) * preQueue(nFrames[0]) + j

\* a posted FRAME send: the key of its request and the value of its buffer
Message(key, val) == [key |-> key, val |-> val]

PreQueue ==
    /\ pc[0] = "prequeue"
    /\ chan' = [w \in Ranks |->
                  IF w = 0 THEN chan[0]
                  ELSE [k \in 1 .. preQueue(nFrames[0]) |->
                           Message(PreQueueFrame(w, k - 1),
                                   PreQueueFrame(w, k - 1))]]
    /\ requests' = requests \cup
                     {PreQueueFrame(w, j) :
                         w \in Workers, j \in 0 .. preQueue(nFrames[0]) - 1}
    /\ pc' = [pc EXCEPT ![0] = "loop"]
    /\ UNCHANGED <<cfgVars, exitCode, locVars, outVars, doneChan, matched,
                   clientRequest, arrived>>

(***************************************************************************)
(* main, lines 266-293: the per-frame worker.                              *)
(***************************************************************************)
RECURSIVE Flatten(_)
Flatten(ss) == IF ss = <<>> THEN <<>> ELSE Head(ss) \o Flatten(Tail(ss))

\* const float t = start + frame * step
FrameTime(f) == FAdd(start, FMul(FromInt(f), step))

\* a variant that walks the sections from the last to the first
CellVoltagesReversed(voltages, off, index) ==
    Flatten([j \in 1 .. Len(off[index + 1]) |->
                LET s == Len(off[index + 1]) + 1 - j
                IN  [k \in 1 .. counts[index + 1][s] |->
                        voltages[off[index + 1][s] + (k - 1) + 1]]])

\* the inner loops of lines 284-286: cellVoltages of the neuron at index
CellVoltages(voltages, off, index) ==
    Flatten([j \in 1 .. Len(off[index + 1]) |->
                [k \in 1 .. counts[index + 1][j] |->
                    voltages[off[index + 1][j] + (k - 1) + 1]]])

\* a variant that writes only the gids of the rank's own partition range
FrameCallsOwned(rank, f, voltages, t) ==
    LET off == offsets
    IN  [n \in 1 .. endGID(rank) - startGID(rank) |->
            [op |-> "writeFrame", gid |-> startGID(rank) + n - 1, frame |-> f,
             slice |-> CellVoltages(voltages, off, startGID(rank) + n - 1),
             t |-> t]]

\* the writeFrame calls rank makes in lines 279-290 for the loaded frame f
\* (the log keeps f beside the t that is passed)
FrameCalls(rank, f, voltages, t) ==
    LET off == offsets
    IN  [n \in 1 .. gidCount |->
            [op |-> "writeFrame", gid |-> n - 1, frame |-> f,
             slice |-> CellVoltages(voltages, off, n - 1), t |-> t]]

\* what the memory read through a null floatsPtr holds
GarbageFrame == [p \in 1 .. FrameSize(counts) |-> -1]

\* Line 274 dereferences the pointer loadFrame returned without testing it.
\* With a null pointer the reads of line 286 end the process with a signal
\* or yield what the memory holds.
LoadOutcomes(data) == IF data = NullFrame THEN {"abort", "garbage"} ELSE {"ok"}

\* const brion::floats& voltages = *data.get()
Voltages(data, outcome) == IF outcome = "garbage" THEN GarbageFrame ELSE data

\* the process is ended by a signal or by MPI_Abort
Crash(r) ==
    /\ pc' = [pc EXCEPT ![r] = "crashed"]
    /\ exitCode' = [exitCode EXCEPT ![r] = "ABORT"]

(***************************************************************************)
(* MPI: what a receive reads, and when a send is complete.                 *)
(*                                                                         *)
(* Every send of the program is an MPI_Isend of one int whose buffer is    *)
(* changed or leaves its scope before the send is waited on.  A library    *)
(* that buffers the message when the send is posted delivers the value the *)
(* buffer held then.  One that reads the buffer when the receive is        *)
(* matched delivers that value or whatever the buffer's memory holds by    *)
(* then: the loop counter i for the sends of line 246, as long as rank 0   *)
(* is in its loop, and any int otherwise.  Of these the model takes one of  *)
(* each kind: a stop frame, the index of a frame of the report, and an     *)
(* index past its last frame.                                              *)
(***************************************************************************)
Garbage == {-1, 0, InFrames}

\* what the worker's MPI_Recv of line 260 may store in frame
FrameRead(msg) ==
    IF mpiEager THEN {msg.val}
    ELSE IF msg.key >= startFrame(nFrames[0]) /\ pc[0] \in {"loop", "wait"}
    THEN {msg.val, i[0]}
    ELSE {msg.val} \cup Garbage

\* what rank 0's MPI_Recv of line 241 may store in frame
DoneRead(val) == IF mpiEager THEN {val} ELSE {val} \cup Garbage

\* the FRAME send with this key is complete
FrameSent(key) == mpiEager \/ key \in matched

\* the worker's FRAME_DONE send is complete
DoneSent(w) == mpiEager \/ doneChan[w] = <<>>

(***************************************************************************)
(* main, lines 226-253 and 266-293 on rank 0: the coordinator's loop.      *)
(***************************************************************************)
\* MPI_Iprobe found nothing (or nRanks is 1): rank 0 converts frame i itself
CoordinatorLocal ==
    /\ pc[0] = "loop"
    /\ i[0] < nFrames[0]
    /\ frame' = [frame EXCEPT ![0] = i[0]]
    /\ LET t    == FrameTime(i[0])
           data == InLoadFrame(t)
       IN  \E outcome \in LoadOutcomes(data) :
               IF outcome = "abort"
               THEN Crash(0) /\ UNCHANGED <<calls, i>>
               ELSE /\ calls' = [calls EXCEPT ![0] =
                        @ \o FrameCalls(0, i[0], Voltages(data, outcome), t)]
                    /\ i' = [i EXCEPT ![0] = @ + 1]
                    /\ UNCHANGED <<pc, exitCode>>
    /\ framesDone' = [framesDone EXCEPT ![0] = @ + 1]
    /\ UNCHANGED <<cfgVars, end, nFrames, source, result, mpiVars>>

\* MPI_Iprobe found a FRAME_DONE: lines 241-242
CoordinatorRecv ==
    /\ pc[0] = "loop"
    /\ i[0] < nFrames[0]
    /\ nRanks > 1
    /\ \E w \in Workers :
        /\ doneChan[w] # <<>>
        /\ \E v \in DoneRead(Head(doneChan[w])) :
               frame' = [frame EXCEPT ![0] = v]
        /\ source' = w
        /\ doneChan' = [doneChan EXCEPT ![w] = Tail(@)]
    /\ pc' = [pc EXCEPT ![0] = "wait"]
    /\ UNCHANGED <<cfgVars, exitCode, end, nFrames, i, framesDone, outVars,
                   chan, requests, matched, clientRequest, arrived>>

\* status.MPI_SOURCE at line 246.  MPI_Recv stored the sender of the
\* FRAME_DONE in status (line 242); MPI_Wait of line 243 then wrote the same
\* status for a send request, which leaves MPI_SOURCE undefined: libraries
\* leave it as it was or store the rank of the calling process.
StatusSource(received) == {received, 0}

\* lines 243-249: wait for and drop the request of the frame that is done,
\* send frame i to the worker that was idle.  requests[frame] of a frame with
\* no request makes a null request, which MPI_Wait returns from or aborts on.
CoordinatorDispatch ==
    /\ pc[0] = "wait"
    /\ frame[0] \in requests => FrameSent(frame[0])
    /\ \E outcome \in IF frame[0] \in requests THEN {"ok"} ELSE {"ok", "abort"} :
        IF outcome = "abort"
        THEN Crash(0) /\ UNCHANGED <<requests, chan, i>>
        ELSE /\ requests' = (requests \ {frame[0]}) \cup {i[0]}
             /\ \E dest \in StatusSource(source) :
                    chan' = [chan EXCEPT ![dest] =
                                Append(@, Message(i[0], i[0]))]
             /\ i' = [i EXCEPT ![0] = @ + 1]
             /\ pc' = [pc EXCEPT ![0] = "loop"]
             /\ UNCHANGED exitCode
    /\ UNCHANGED <<cfgVars, end, nFrames, frame, framesDone, source, outVars,
                   doneChan, matched, clientRequest, arrived>>

(***************************************************************************)
(* main, lines 226-229, 254-300 on a rank other than 0: the worker's loop. *)
(***************************************************************************)
\* lines 258-259: wait for the previous FRAME_DONE send
WorkerWait(w) ==
    /\ w # 0
    /\ pc[w] = "loop"
    /\ i[w] < nFrames[w]
    /\ i[w] # startFrame(nFrames[w]) => DoneSent(w)
    /\ clientRequest' = [clientRequest EXCEPT ![w] =
                            IF i[w] # startFrame(nFrames[w]) THEN "null" ELSE @]
    /\ pc' = [pc EXCEPT ![w] = "recv"]
    /\ UNCHANGED <<cfgVars, exitCode, locVars, outVars, chan, doneChan,
                   requests, matched, arrived>>

\* lines 260-300: receive a frame; stop on a negative one, else convert the
\* frame and report it done
WorkerRecv(w) ==
    /\ w # 0
    /\ pc[w] = "recv"
    /\ chan[w] # <<>>
    /\ chan' = [chan EXCEPT ![w] = Tail(@)]
    /\ matched' = matched \cup {Head(chan[w]).key}
    /\ \E v \in FrameRead(Head(chan[w])) :
        /\ frame' = [frame EXCEPT ![w] = v]
        /\ IF v < 0
           THEN /\ pc' = [pc EXCEPT ![w] = "flush"]
                /\ UNCHANGED <<exitCode, framesDone, calls, doneChan,
                               clientRequest, i>>
           ELSE /\ framesDone' = [framesDone EXCEPT ![w] = @ + 1]
                /\ LET t    == FrameTime(v)
                       data == InLoadFrame(t)
                   IN  \E outcome \in LoadOutcomes(data) :
                       IF outcome = "abort"
                       THEN Crash(w) /\ UNCHANGED <<calls, doneChan,
                                                    clientRequest, i>>
                       ELSE /\ calls' = [calls EXCEPT ![w] =
                                    @ \o FrameCalls(w, v, Voltages(data, outcome), t)]
                            /\ doneChan' = [doneChan EXCEPT ![w] = Append(@, v)]
                            /\ clientRequest' =
                                   [clientRequest EXCEPT ![w] = "active"]
                            /\ i' = [i EXCEPT ![w] = @ + 1]
                            /\ pc' = [pc EXCEPT ![w] = "loop"]
                            /\ UNCHANGED exitCode
    /\ UNCHANGED <<cfgVars, end, nFrames, source, result, requests, arrived>>

\* the for loop of line 226 ends: i reached nFrames
LoopEnd(r) ==
    /\ pc[r] = "loop"
    /\ i[r] >= nFrames[r]
    /\ pc' = [pc EXCEPT ![r] = IF r = 0 THEN "stop" ELSE "flush"]
    /\ UNCHANGED <<cfgVars, exitCode, locVars, outVars, mpiVars>>

(***************************************************************************)
(* main, lines 303-334: the stop frames, flush, the final waits and the    *)
(* barrier.                                                                *)
(***************************************************************************)
SendStop ==
    /\ pc[0] = "stop"
    /\ chan' = [w \in Ranks |->
                  IF w = 0 THEN chan[0]
                  ELSE Append(chan[w], Message(0 - w, 0 - w))]
    /\ requests' = requests \cup {0 - w : w \in Workers}
    /\ pc' = [pc EXCEPT ![0] = "flush"]
    /\ UNCHANGED <<cfgVars, exitCode, locVars, outVars, doneChan, matched,
                   clientRequest, arrived>>

Flush(r) ==
    /\ pc[r] = "flush"
    /\ calls' = [calls EXCEPT ![r] = Append(@, [op |-> "flush"])]
    /\ pc' = [pc EXCEPT ![r] = "finalWait"]
    /\ UNCHANGED <<cfgVars, exitCode, locVars, result, mpiVars>>

\* lines 318-326: rank 0 waits for every request left in its map
CoordinatorFinalWait ==
    /\ pc[0] = "finalWait"
    /\ \A key \in requests : FrameSent(key)
    /\ pc' = [pc EXCEPT ![0] = "barrier"]
    /\ arrived' = arrived \cup {0}
    /\ UNCHANGED <<cfgVars, exitCode, locVars, outVars, chan, doneChan,
                   requests, matched, clientRequest>>

\* lines 327-331: a worker waits for its request; a request that was never
\* set holds what the stack held, which MPI_Wait returns from or aborts on
WorkerFinalWait(w) ==
    /\ w # 0
    /\ pc[w] = "finalWait"
    /\ clientRequest[w] = "active" => DoneSent(w)
    /\ \E outcome \in IF clientRequest[w] = "uninit"
                      THEN {"ok", "abort"} ELSE {"ok"} :
        IF outcome = "abort"
        THEN Crash(w) /\ UNCHANGED <<clientRequest, arrived>>
        ELSE /\ clientRequest' = [clientRequest EXCEPT ![w] =
                                    IF @ = "active" THEN "null" ELSE @]
             /\ pc' = [pc EXCEPT ![w] = "barrier"]
             /\ arrived' = arrived \cup {w}
             /\ UNCHANGED exitCode
    /\ UNCHANGED <<cfgVars, locVars, outVars, chan, doneChan, requests, matched>>

\* line 333, and line 348 without --compare
Barrier(r) ==
    /\ pc[r] = "barrier"
    /\ arrived = Ranks
    /\ IF vm.compare
       THEN pc' = [pc EXCEPT ![r] = "compare"] /\ UNCHANGED exitCode
       ELSE Exit(r, "EXIT_SUCCESS")
    /\ UNCHANGED <<cfgVars, locVars, outVars, mpiVars>>

(***************************************************************************)
(* The output report, as the writers of all ranks leave it: the header,    *)
(* the counts committed by writeCompartments, the offsets of sections laid *)
(* out one after the other in GID order, and per frame the slices written  *)
(* by writeFrame, one after the other in GID order (a frame for which some *)
(* neuron has no slice cannot be loaded).                                  *)
(***************************************************************************)
AllCalls == UNION {{calls[r][k] : k \in DOMAIN calls[r]} : r \in Ranks}

Committed(n) == {c \in AllCalls : c.op = "writeCompartments" /\ c.gid = n}

WrittenCounts ==
    [n \in 1 .. gidCount |->
        IF Committed(n - 1) = {} THEN <<>>
        ELSE (CHOOSE c \in Committed(n - 1) : TRUE).counts]

WrittenSlices(n, f) ==
    {c.slice : c \in {d \in AllCalls : /\ d.op = "writeFrame"
                                       /\ d.gid = n
                                       /\ SnapFrame(d.t) = f}}

WrittenFrame(f) ==
    IF \A n \in 0 .. gidCount - 1 : WrittenSlices(n, f) # {}
    THEN Flatten([n \in 1 .. gidCount |->
                     CHOOSE sl \in WrittenSlices(n - 1, f) : TRUE])
    ELSE NullFrame

Written ==
    LET header == CHOOSE c \in AllCalls : c.op = "writeHeader"
        frames == FTrunc(FDiv(FSub(header.end, header.start), header.step))
    IN  [start   |-> header.start,
         end     |-> header.end,
         step    |-> header.step,
         counts  |-> WrittenCounts,
         offsets |-> OffsetsOf(WrittenCounts),
         frames  |-> [f \in 0 .. frames - 1 |-> WrittenFrame(f)]]

\* result.loadFrame( t )
ResultLoadFrame(res, t) ==
    IF SnapFrame(t) \in DOMAIN res.frames THEN res.frames[SnapFrame(t)]
    ELSE NullFrame

(***************************************************************************)
(* main, lines 348-394: the comparison of the written report.              *)
(***************************************************************************)
\* line 351: brion::CompartmentReport result( outURI, brion::MODE_READ )
\* (res is what the file at outURI holds)
OpenReport(r, res) ==
    /\ pc[r] = "compare"
    /\ result' = res
    /\ pc' = [pc EXCEPT ![r] = "verify"]
    /\ UNCHANGED <<cfgVars, exitCode, locVars, calls, mpiVars>>

\* the file holds what the writers of this run wrote
OpenResult(r) == OpenReport(r, Written)

\* lines 52-64
requireEqualCollections(a, b) ==
    /\ \A k \in 1 .. (IF Len(a) < Len(b) THEN Len(a) ELSE Len(b)) : a[k] = b[k]
    /\ Len(a) = Len(b)

\* lines 353-357: times, frame size and gids (the gid at an index is the index)
MetadataEqual(res) ==
    /\ start = res.start
    /\ inEnd = res.end
    /\ step = res.step
    /\ FrameSize(counts) = FrameSize(res.counts)
    /\ requireEqualCollections([n \in 1 .. gidCount |-> n - 1],
                               [n \in 1 .. Len(res.counts) |-> n - 1])

\* lines 363-378
LayoutEqual(res) ==
    /\ Len(offsets) = Len(res.offsets)
    /\ Len(counts) = Len(res.counts)
    /\ \A n \in 1 .. Len(offsets) :
        /\ requireEqualCollections(offsets[n], res.offsets[n])
        /\ \A j \in 1 .. Len(offsets[n]) :
               offsets[n][j] < FrameSize(counts) \/ offsets[n][j] = Sentinel

\* lines 382-389 for one t
FrameEqual(res, t) ==
    /\ InLoadFrame(t) # NullFrame
    /\ ResultLoadFrame(res, t) # NullFrame
    /\ \A p \in 1 .. FrameSize(counts) :
           InLoadFrame(t)[p] = ResultLoadFrame(res, t)[p]

\* lines 380-391: for( float t = start; t < end; t += step )
RECURSIVE FramesEqual(_, _, _)
FramesEqual(res, t, e) ==
    IF FLess(t, e) THEN FrameEqual(res, t) /\ FramesEqual(res, FAdd(t, step), e)
    ELSE TRUE

VerifyPasses(res, e) ==
    MetadataEqual(res) /\ LayoutEqual(res) /\ FramesEqual(res, start, e)

\* a variant that reports a failed comparison and returns all the same
VerifyAndReturn(r) ==
    /\ pc[r] = "verify"
    /\ Exit(r, "EXIT_SUCCESS")
    /\ UNCHANGED <<cfgVars, locVars, outVars, mpiVars>>

Verify(r) ==
    /\ pc[r] = "verify"
    /\ IF VerifyPasses(result, end[r])
       THEN Exit(r, "EXIT_SUCCESS")
       ELSE Exit(r, "EXIT_FAILURE")
    /\ UNCHANGED <<cfgVars, locVars, outVars, mpiVars>>

(***************************************************************************)
(* Initial states: a command line, an input report, a world size and an    *)
(* MPI library.                                                            *)
(***************************************************************************)
Convert(m, c) ==
    [parseError |-> FALSE, help |-> FALSE, version |-> FALSE, input |-> TRUE,
     dump |-> FALSE, compare |-> c, maxFrames |-> m]

NoResult == [start |-> FZero, end |-> FZero, step |-> FZero, counts |-> <<>>,
             offsets |-> <<>>, frames |-> <<>>]

InitLayouts(options, reports, layouts, sizes, libraries, gaps) ==
    /\ vm \in options
    /\ inMs \in reports
    /\ counts \in layouts
    /\ missing \in gaps
    /\ nRanks \in sizes
    /\ mpiEager \in libraries
    /\ pc = [r \in Ranks |-> "start"]
    /\ exitCode = [r \in Ranks |-> "running"]
    /\ end = [r \in Ranks |-> FZero]
    /\ nFrames = [r \in Ranks |-> 0]
    /\ i = [r \in Ranks |-> 0]
    /\ frame = [r \in Ranks |-> 0]
    /\ framesDone = [r \in Ranks |-> 0]
    /\ source = 0
    /\ calls = [r \in Ranks |-> <<>>]
    /\ chan = [r \in Ranks |-> <<>>]
    /\ doneChan = [w \in Workers |-> <<>>]
    /\ requests = {}
    /\ matched = {}
    /\ clientRequest = [w \in Workers |-> "uninit"]
    /\ arrived = {}
    /\ result = NoResult

\* the runs on reports whose neurons have the sections of LayoutPattern
InitRunWith(options, reports, gidCounts, sizes, libraries, gaps) ==
    InitLayouts(options, reports, {CountsFor(G) : G \in gidCounts}, sizes,
                libraries, gaps)

\* the runs on input reports whose frames can all be loaded
InitRun(options, reports, gidCounts, sizes, libraries) ==
    InitRunWith(options, reports, gidCounts, sizes, libraries, {{}})

\* the command lines that do not convert
OtherOptions ==
    {[Convert(NoMaxFrames, FALSE) EXCEPT !.parseError = TRUE],
     [Convert(NoMaxFrames, FALSE) EXCEPT !.help = TRUE],
     [Convert(NoMaxFrames, FALSE) EXCEPT !.version = TRUE],
     [Convert(NoMaxFrames, FALSE) EXCEPT !.input = FALSE],
     [Convert(NoMaxFrames, FALSE) EXCEPT !.dump = TRUE]}

Options ==
    OtherOptions \cup
    {Convert(m, c) : m \in {NoMaxFrames} \cup 0 .. MaxClamp, c \in BOOLEAN}

\* reports of 0 .. MaxInFrames frames from time 0 in steps of 1, and one
\* whose start and step are no binary fractions
Reports ==
    {[start |-> 0, end |-> n * 1000, step |-> 1000] : n \in 0 .. MaxInFrames}
    \cup {[start |-> 1000, end |-> 2000, step |-> 200]}

\* the runs with an MPI library that buffers every message when it is posted
InitEager == InitRun(Options, Reports, {GidCount}, 1 .. MaxRanks, {TRUE})

\* the runs with one that does not
InitLate == InitRun(Options, Reports, {GidCount}, 1 .. MaxLateRanks, {FALSE})

Init == InitEager \/ InitLate

Next ==
    \/ \E r \in Ranks : Parse(r)
    \/ \E r \in Ranks : WriteHeader(r)
    \/ \E r \in Ranks : WriteLayout(r)
    \/ \E r \in Ranks : CheckWorkers(r)
    \/ PreQueue
    \/ CoordinatorLocal
    \/ CoordinatorRecv
    \/ CoordinatorDispatch
    \/ \E w \in Workers : WorkerWait(w)
    \/ \E w \in Workers : WorkerRecv(w)
    \/ \E r \in Ranks : LoopEnd(r)
    \/ SendStop
    \/ \E r \in Ranks : Flush(r)
    \/ CoordinatorFinalWait
    \/ \E w \in Workers : WorkerFinalWait(w)
    \/ \E r \in Ranks : Barrier(r)
    \/ \E r \in Ranks : OpenResult(r)
    \/ \E r \in Ranks : Verify(r)

Spec == Init /\ [][Next]_vars

SpecEager == InitEager /\ [][Next]_vars

(***************************************************************************)
(* The partition on its own: every world size up to MaxPartRanks and every *)
(* GID count up to MaxPartGids, each rank running up to the end of its     *)
(* layout phase.  A rank's layout phase reads nothing another rank writes, *)
(* so the ranks are taken one after the other.                             *)
(***************************************************************************)
InitPartition ==
    InitRun({Convert(NoMaxFrames, FALSE)},
            {[start |-> 0, end |-> 1000, step |-> 1000]},
            0 .. MaxPartGids, 1 .. MaxPartRanks, {TRUE})

InTurn(r) == \A q \in 0 .. r - 1 : pc[q] = "check"

NextPartition ==
    \/ \E r \in Ranks : InTurn(r) /\ Parse(r)
    \/ \E r \in Ranks : InTurn(r) /\ WriteHeader(r)
    \/ \E r \in Ranks : InTurn(r) /\ WriteLayout(r)

SpecPartition == InitPartition /\ [][NextPartition]_vars

(***************************************************************************)
(* The clamping on its own: one rank, reports of several starts, steps and *)
(* ends, and every --maxFrames up to MaxClampFrames, up to the frame       *)
(* count.                                                                  *)
(***************************************************************************)
ClampReports ==
    {[start |-> s, end |-> e, step |-> d] :
        s \in {0, 1000}, e \in {1000, 2000, 3000, 5000},
        d \in {100, 200, 250, 500, 1000}}

InitClamp ==
    InitRun({Convert(m, FALSE) : m \in {NoMaxFrames} \cup 0 .. MaxClampFrames},
            ClampReports, {GidCount}, {1}, {TRUE})

NextClamp ==
    \/ \E r \in Ranks : Parse(r)
    \/ \E r \in Ranks : WriteHeader(r)
    \/ \E r \in Ranks : WriteLayout(r)

SpecClamp == InitClamp /\ [][NextClamp]_vars

(***************************************************************************)
(* The comparison on its own: one rank converts a report of VerifyFrames   *)
(* frames and re-opens an output file that holds any of Results.           *)
(***************************************************************************)
VerifyFrames == 2

\* the most compartments a section of such an output has
MaxSectionCount == 3

\* the count sequences that differ from c in at most one neuron
ResultCounts(c) ==
    {[c EXCEPT ![n] = sc] :
        n \in 1 .. Len(c), sc \in UNION {[1 .. Len(c[k]) -> 0 .. MaxSectionCount] :
                                            k \in 1 .. Len(c)}}

\* the reports an output file may hold: the input's times and frames, its
\* layout any of these counts with the input's offsets or with their own
Results ==
    LET header == [start |-> start, end |-> inEnd, step |-> step]
        frames == [f \in 0 .. InFrames - 1 |-> InFrame(f)]
        off    == offsets
    IN  UNION {{[start |-> header.start, end |-> header.end,
                 step |-> header.step, counts |-> rc, offsets |-> ro,
                 frames |-> frames] : ro \in {off, OffsetsOf(rc)}} :
                    rc \in ResultCounts(counts)}

InitVerify ==
    InitRun({Convert(NoMaxFrames, TRUE)},
            {[start |-> 0, end |-> VerifyFrames * 1000, step |-> 1000]},
            {GidCount}, {1}, {TRUE})

NextVerify ==
    \/ \E r \in Ranks : Parse(r)
    \/ \E r \in Ranks : WriteHeader(r)
    \/ \E r \in Ranks : WriteLayout(r)
    \/ \E r \in Ranks : CheckWorkers(r)
    \/ PreQueue
    \/ CoordinatorLocal
    \/ \E r \in Ranks : LoopEnd(r)
    \/ SendStop
    \/ \E r \in Ranks : Flush(r)
    \/ CoordinatorFinalWait
    \/ \E r \in Ranks : Barrier(r)
    \/ \E r \in Ranks : pc[r] = "compare" /\ \E res \in Results : OpenReport(r, res)
    \/ \E r \in Ranks : Verify(r)

SpecVerify == InitVerify /\ [][NextVerify]_vars

(***************************************************************************)
(* Runs on an input report of GapFrames frames of which the reader cannot  *)
(* load some.                                                              *)
(***************************************************************************)
GapFrames == 3

InitMissing ==
    InitRunWith({Convert(NoMaxFrames, c) : c \in BOOLEAN},
                {[start |-> 0, end |-> GapFrames * 1000, step |-> 1000]},
                {GidCount}, 1 .. 2, {TRUE},
                SUBSET (0 .. GapFrames - 1) \ {{}})

SpecMissing == InitMissing /\ [][Next]_vars

(***************************************************************************)
(* The slices of lines 277-290 on reports of other layouts: neurons whose  *)
(* first, last or only sections have no compartment, converted by one rank *)
(* and by two.                                                             *)
(***************************************************************************)
SliceFrames == 3

Layouts ==
    {<< <<0, 2>>, <<1>> >>,
     << <<2, 0>>, <<0>>, <<1, 1>> >>,
     << <<1, 0, 2>>, <<0, 0>> >>,
     << <<0, 1, 0, 1>> >>,
     CountsFor(GidCount)}

InitSlices ==
    InitLayouts({Convert(NoMaxFrames, c) : c \in BOOLEAN},
                {[start |-> 0, end |-> SliceFrames * 1000, step |-> 1000]},
                Layouts, 1 .. 2, {TRUE}, {{}})

SpecSlices == InitSlices /\ [][Next]_vars

(***************************************************************************)
(* The pre-queue depth on its own, lines 196-197, for frame counts up to   *)
(* the width of a size_t.  nFrames is held in two digits here, and the     *)
(* frame counts are those for which (nRanks-1) * preQueue fits an int.     *)
(***************************************************************************)
MaxDepthRanks == 3
MaxDepthExp == 10

DepthInputs ==
    {Wide(n) : n \in {0, 1, 511, 512, 1023, 1024, 1535, 1536, 1537, 2047,
                      2048, 2^20, 2^30 - 1}}
    \cup {[hi |-> 2^k, lo |-> l] : k \in 0 .. MaxDepthExp - 3,
                                   l \in {0, 511, 512}}
    \cup {[hi |-> h * 2^MaxDepthExp + d, lo |-> l] :
              h \in 1 .. 4, d \in {0, 1}, l \in {0, 5 * 512}}

InitDepth ==
    /\ vm = Convert(NoMaxFrames, FALSE)
    /\ inMs = [start |-> 0, end |-> 1000, step |-> 1000]
    /\ counts = CountsFor(GidCount)
    /\ missing = {}
    /\ nRanks \in 1 .. MaxDepthRanks
    /\ mpiEager = TRUE
    /\ pc = [r \in Ranks |-> "depth"]
    /\ exitCode = [r \in Ranks |-> "running"]
    /\ end = [r \in Ranks |-> FZero]
    /\ \E x \in DepthInputs : nFrames = [r \in Ranks |-> x]
    /\ i = [r \in Ranks |-> 0]
    /\ frame = [r \in Ranks |-> 0]
    /\ framesDone = [r \in Ranks |-> 0]
    /\ source = 0
    /\ calls = [r \in Ranks |-> <<>>]
    /\ chan = [r \in Ranks |-> <<>>]
    /\ doneChan = [w \in Workers |-> <<>>]
    /\ requests = {}
    /\ matched = {}
    /\ clientRequest = [w \in Workers |-> "uninit"]
    /\ arrived = {}
    /\ result = NoResult

\* lines 196-197 on rank r: preQueue into frame, startFrame into i
PreQueueDepth(r) ==
    /\ pc[r] = "depth"
    /\ frame' = [frame EXCEPT ![r] = PreQueueOf(nFrames[r])]
    /\ i' = [i EXCEPT ![r] = (nRanks - 1) * PreQueueOf(nFrames[r])]
    /\ pc' = [pc EXCEPT ![r] = "check"]
    /\ UNCHANGED <<cfgVars, exitCode, end, nFrames, framesDone, source,
                   outVars, mpiVars>>

NextDepth == \E r \in Ranks : PreQueueDepth(r)

SpecDepth == InitDepth /\ [][NextDepth]_vars

(***************************************************************************)
(* What the properties below read off the state.                           *)
(***************************************************************************)
\* the positions of rank r's writer calls of this kind
CallsOf(r, op) == {k \in DOMAIN calls[r] : calls[r][k].op = op}

\* rank r passed the gid at index n to writeCompartments
Owns(r, n) == \E k \in CallsOf(r, "writeCompartments") : calls[r][k].gid = n

\* rank r passed the gid at index n to addGID
Declares(r, n) == \E k \in CallsOf(r, "addGID") : calls[r][k].gid = n

\* rank r's writeFrame calls for the gid at index n
FrameWrites(r, n) == {k \in CallsOf(r, "writeFrame") : calls[r][k].gid = n}

\* the frame indices rank r's per-frame worker loaded and wrote, in order
ProcessedSeq(r) ==
    LET ks == SelectSeq([k \in DOMAIN calls[r] |-> k],
                        LAMBDA k : k \in FrameWrites(r, 0))
    IN  [k \in DOMAIN ks |-> calls[r][ks[k]].frame]

\* every rank has flushed, waited and entered the barrier
Finished == arrived = Ranks

\* rank r made the check of line 198
AfterCheck(r) ==
    pc[r] \notin {"start", "header", "layout", "check"} /\ calls[r] # <<>>

\* the (N-1)*Q of the frame count n, Q being 2 or n / 512
S(n) == (nRanks - 1) * (IF n \div 512 > 2 THEN n \div 512 ELSE 2)

\* the writeFrame calls of all ranks for frame f, by rank and position
Processings(f) ==
    UNION {{<<r, k>> : k \in {j \in FrameWrites(r, 0) : calls[r][j].frame = f}} :
              r \in Ranks}

\* the slice of the input's frame f that belongs to the neuron at index n
InSlice(f, n) ==
    [k \in 1 .. NumCompartments(counts, n) |->
        InFrame(f)[BaseOffset(counts, n) + k]]

\* the slices the ranks wrote for the gid at index n and the timestamp t
SlicesAt(n, t) ==
    {c.slice : c \in {d \in AllCalls : d.op = "writeFrame" /\ d.gid = n
                                                            /\ d.t = t}}

\* worker w is past its receive loop
LeftLoop(w) ==
    pc[w] \in {"flush", "finalWait", "barrier", "compare", "verify"}
        \/ w \in arrived

\* floor((end_in - start) / step) of the input's times as written
InputFrames == (inMs.end - inMs.start) \div inMs.step

(***************************************************************************)
(* The properties.                                                         *)
(***************************************************************************)
\* C1: frame coverage.  When every rank has finished its conversion (the
\* run passed the check for too many workers), every frame index in
\* 0 .. nFrames-1 has been loaded and written by the per-frame worker of
\* exactly one rank, exactly once.
FrameCoverage ==
    Finished =>
        \A f \in 0 .. nFrames[0] - 1 : Cardinality(Processings(f)) = 1

\* C2: round trip.  After a completed conversion, for every frame index f
\* below nFrames and every neuron index n the output holds at (gid n,
\* start + f*step) exactly the slice of the input's frame f that belongs to
\* the neuron, and the output's frame f equals the input's frame f.
RoundTrip ==
    Finished =>
        \A f \in 0 .. nFrames[0] - 1 :
            /\ \A n \in 0 .. gidCount - 1 :
                   SlicesAt(n, FrameTime(f)) = {InSlice(f, n)}
            /\ WrittenFrame(f) = InFrame(f)

\* C3: partition coverage.  Once every rank has laid out the report, each
\* GID index is passed to writeCompartments by exactly one rank and to
\* addGID by every other rank.
PartitionCoverage ==
    (\A r \in Ranks : pc[r] = "check") =>
        \A n \in 0 .. gidCount - 1 :
            /\ Cardinality({r \in Ranks : Owns(r, n)}) = 1
            /\ \A r \in Ranks : Owns(r, n) \/ Declares(r, n)

\* C4 as stated: a rank that processes frames calls writeFrame for the gid at
\* index n if and only if it passed that gid to writeCompartments.
OwnershipGatedWrites ==
    \A r \in Ranks :
        (framesDone[r] > 0 /\ pc[r] # "crashed") =>
            \A n \in 0 .. gidCount - 1 : (FrameWrites(r, n) # {}) <=> Owns(r, n)

\* C4: a rank calls writeFrame for every GID index of every frame it
\* processes, whether it passed the gid to writeCompartments or only to
\* addGID: for every index it made as many writeFrame calls as it processed
\* frames, and where it wrote one gid at a frame's timestamp it wrote all.
WritesEveryGid ==
    \A r \in Ranks :
        pc[r] # "crashed" =>
            \A n \in 0 .. gidCount - 1 :
                /\ Cardinality(FrameWrites(r, n)) = framesDone[r]
                /\ \A k \in CallsOf(r, "writeFrame") :
                       \E j \in FrameWrites(r, n) :
                           /\ calls[r][j].frame = calls[r][k].frame
                           /\ calls[r][j].t = calls[r][k].t

\* a rank wrote a frame of a gid it only declared
WritesDeclaredGid ==
    \E r \in Ranks : \E n \in 0 .. gidCount - 1 :
        FrameWrites(r, n) # {} /\ Declares(r, n) /\ ~Owns(r, n)

\* C5: terminate delivery.  A worker that is past its receive loop has
\* received its terminate signal, a FRAME with a negative index, as the last
\* message addressed to it, and left the loop because of it.
TerminateDelivery ==
    \A w \in Workers :
        LeftLoop(w) =>
            /\ (0 - w) \in matched
            /\ frame[w] < 0
            /\ chan[w] = <<>>

\* C6: TooManyWorkers.  With S = (N-1)*Q: if S > nFrames a rank that made
\* the check has exited with a failure, no frame has been processed and no
\* FRAME message has been sent; if S <= nFrames no rank exits with a failure
\* before the end of its conversion.
TooManyWorkersCheck ==
    \A r \in Ranks :
        AfterCheck(r) =>
            IF S(nFrames[r]) > nFrames[r]
            THEN /\ pc[r] = "exited"
                 /\ exitCode[r] = "EXIT_FAILURE"
                 /\ \A q \in Ranks : framesDone[q] = 0
                 /\ \A q \in Ranks : CallsOf(q, "writeFrame") = {}
                 /\ requests = {}
                 /\ \A w \in Workers : chan[w] = <<>>
            ELSE ~(/\ pc[r] = "exited"
                   /\ exitCode[r] = "EXIT_FAILURE"
                   /\ r \notin arrived)

\* a rank failed the check: there are more pre-queued frames than frames
FailedTooManyWorkers ==
    \E r \in Ranks :
        /\ AfterCheck(r)
        /\ S(nFrames[r]) > nFrames[r]
        /\ pc[r] = "exited"
        /\ exitCode[r] = "EXIT_FAILURE"

\* C7: single-process mode.  With one rank the frames processed so far are
\* 0, 1, 2, ... in this order, all of 0 .. nFrames-1 once the loop is left,
\* and no message is ever sent, received or waited on.
SingleProcessMode ==
    nRanks = 1 =>
        /\ requests = {}
        /\ matched = {}
        /\ pc[0] \notin {"wait", "recv"}
        /\ ProcessedSeq(0) = [k \in 1 .. Len(ProcessedSeq(0)) |-> k - 1]
        /\ LeftLoop(0) \/ pc[0] = "stop" => Len(ProcessedSeq(0)) = nFrames[0]

\* a single rank finished a conversion of two frames or more
SingleProcessDone ==
    /\ nRanks = 1
    /\ pc[0] = "exited"
    /\ 0 \in arrived
    /\ Len(ProcessedSeq(0)) >= 2

\* C8: maxFrames clamp with verification.  A run with --compare and a
\* --maxFrames m below the input's frame count that came to its end wrote
\* the header end start + m*step, converted exactly m frames and exits with
\* success.
MaxFramesClampVerified ==
    \A r \in Ranks :
        (/\ vm.compare
         /\ maxFrames # NoMaxFrames
         /\ maxFrames < InputFrames
         /\ pc[r] = "exited"
         /\ r \in arrived) =>
            /\ calls[r][1].end = FAdd(start, FMul(FromInt(maxFrames), step))
            /\ nFrames[r] = maxFrames
            /\ exitCode[r] = "EXIT_SUCCESS"

\* C9: monotone clamping.  The frame count a rank computes is the smaller
\* of floor((end_in - start) / step) and m, m being unlimited without
\* --maxFrames.
MonotoneClamping ==
    \A r \in Ranks :
        pc[r] = "check" =>
            nFrames[r] = IF maxFrames = NoMaxFrames \/ InputFrames < maxFrames
                         THEN InputFrames ELSE maxFrames

\* C10: verifier layout check.  A rank whose comparison passed re-opened an
\* output whose offsets and whose counts equal the input's, neuron by
\* neuron and element by element.
VerifierLayoutCheck ==
    \A r \in Ranks :
        (/\ vm.compare
         /\ pc[r] = "exited"
         /\ r \in arrived
         /\ exitCode[r] = "EXIT_SUCCESS") =>
            /\ result.offsets = offsets
            /\ result.counts = counts

\* C11: missing frame.  A rank whose loadFrame returned null for the frame
\* it was given has failed there: no rank has made a writeFrame call for a
\* frame the reader cannot load.
MissingFrameFails ==
    \A r \in Ranks :
        \A k \in CallsOf(r, "writeFrame") : calls[r][k].frame \notin missing

\* the command line asks for the dump of the input and nothing else stops
\* the run before it
Dumping == vm.dump /\ vm.input /\ ~vm.parseError /\ ~vm.help /\ ~vm.version

\* C12: dump has no effect.  With --dump a rank goes from its start to its
\* exit with success; no rank opens the writer or makes any call on it, and
\* no message is sent.
DumpNoEffect ==
    Dumping =>
        /\ \A r \in Ranks :
            /\ calls[r] = <<>>
            /\ pc[r] \in {"start", "exited"}
            /\ pc[r] = "exited" => exitCode[r] = "EXIT_SUCCESS"
        /\ requests = {}
        /\ matched = {}
        /\ \A w \in Workers : chan[w] = <<>> /\ doneChan[w] = <<>>
        /\ arrived = {}

\* a rank has dumped the input and exited
Dumped == Dumping /\ \E r \in Ranks : pc[r] = "exited"

\* C13: writer call order on every rank.  The first call is writeHeader and
\* no later one is; the calls after it are one addGID or writeCompartments
\* per gid, in ascending order of the GID set; every call after those is a
\* writeFrame or the flush; a flush is the last call; and a rank that
\* finished its conversion has flushed.
WriterCallOrder ==
    \A r \in Ranks :
        LET cs == calls[r] IN
        /\ \A k \in DOMAIN cs :
            /\ (cs[k].op = "writeHeader") <=> (k = 1)
            /\ (cs[k].op \in {"addGID", "writeCompartments"})
                   <=> (k \in 2 .. gidCount + 1)
            /\ k \in 2 .. gidCount + 1 => cs[k].gid = k - 2
            /\ k > gidCount + 1 => cs[k].op \in {"writeFrame", "flush"}
            /\ cs[k].op = "writeFrame" => Len(cs) >= gidCount + 1
            /\ cs[k].op = "flush" => k = Len(cs)
        /\ r \in arrived => cs # <<>> /\ cs[Len(cs)].op = "flush"

\* a rank flushed after it wrote frames
FlushedAfterFrames ==
    \E r \in Ranks :
        /\ r \in arrived
        /\ CallsOf(r, "writeFrame") # {}
        /\ calls[r][Len(calls[r])].op = "flush"

PartitionRange ==
    \A r \in Ranks :
        pc[r] = "check" =>
            {n \in 0 .. gidCount - 1 : Owns(r, n)}
                = (r * gidCount) \div nRanks
                      .. (((r + 1) * gidCount) \div nRanks) - 1

\* C16: dispatch target.  The FRAME the coordinator sent last in answer to
\* a FRAME_DONE is queued for the worker the FRAME_DONE came from.
DispatchTarget ==
    \A d \in Ranks :
        (/\ pc[0] = "loop"
         /\ chan[d] # <<>>
         /\ chan[d][Len(chan[d])].key = i[0] - 1
         /\ i[0] - 1 >= startFrame(nFrames[0])) => d = source

\* a rank was ended by a signal or by MPI_Abort
Crashed == \E r \in Ranks : pc[r] = "crashed"

\* every rank returned from main
AllExited == \A r \in Ranks : pc[r] = "exited"

\* rank r can take no step: it returned or was ended, or it is in a call
\* that does not return in this state (MPI_Wait on a send that is not
\* complete, MPI_Recv with no message, MPI_Barrier without all ranks)
Stopped(r) ==
    \/ pc[r] \in {"exited", "crashed"}
    \/ pc[r] = "barrier" /\ arrived # Ranks
    \/ r = 0 /\ pc[r] = "wait" /\ frame[0] \in requests /\ ~FrameSent(frame[0])
    \/ r = 0 /\ pc[r] = "finalWait" /\ \E key \in requests : ~FrameSent(key)
    \/ r # 0 /\ pc[r] = "recv" /\ chan[r] = <<>>
    \/ r # 0 /\ pc[r] = "loop" /\ i[r] < nFrames[r]
             /\ i[r] # startFrame(nFrames[r]) /\ ~DoneSent(r)
    \/ r # 0 /\ pc[r] = "finalWait" /\ clientRequest[r] = "active"
             /\ ~DoneSent(r)

\* C17: deadlock freedom.  In a run without a crash the ranks never all
\* come to a stop before they returned from main: no rank stays in a
\* receive, a wait or the barrier with nothing left that could end it.
DeadlockFreedom ==
    ((\A r \in Ranks : Stopped(r)) /\ ~Crashed) => AllExited

\* C18: every FRAME message is consumed.  A worker that is past its receive
\* loop has no FRAME message left to receive, and once every rank is in the
\* barrier no FRAME message with a frame index is left unreceived.
FramesConsumed ==
    /\ \A w \in Workers : LeftLoop(w) => chan[w] = <<>>
    /\ Finished =>
           \A r \in Ranks : \A k \in DOMAIN chan[r] : chan[r][k].key < 0

\* the frame indices some rank's per-frame worker loaded and wrote
ProcessedFrames ==
    UNION {{calls[r][k].frame : k \in FrameWrites(r, 0)} : r \in Ranks}

\* C19: at most once.  No frame index is processed by two ranks or twice by
\* one rank.
AtMostOnce == \A f \in ProcessedFrames : Cardinality(Processings(f)) = 1

\* the frame indices of the FRAME messages queued for rank r
Queued(r) == {chan[r][k].val : k \in DOMAIN chan[r]}

\* the next state's FRAME messages queued for rank r
QueuedNext(r) == {chan'[r][k].val : k \in DOMAIN chan'[r]}

\* rank 0 runs lines 212-219 in this step
PreQueueStep == pc[0] = "prequeue" /\ pc'[0] = "loop"

\* some rank is sent a FRAME message in this step
FramePosted == \E r \in Ranks : Len(chan'[r]) > Len(chan[r])

\* C20: pre-queue assignment.  The pre-queue sends worker w the Q indices
\* (w-1)*Q + j for j in [0, Q) in increasing j; the index sets of different
\* workers are disjoint and their union is [0, S) with S = (N-1)*Q; and a
\* FRAME message is posted only in a step of rank 0, never of a worker.
PreQueueAssignment ==
    [][LET Q == preQueue(nFrames[0])
           N == nRanks
       IN  /\ PreQueueStep =>
                 /\ \A w \in Workers :
                        /\ Len(chan'[w]) = Q
                        /\ \A j \in 0 .. Q - 1 :
                               chan'[w][j + 1].val = (w - 1) * Q + j
                 /\ \A v, w \in Workers :
                        v # w => QueuedNext(v) \cap QueuedNext(w) = {}
                 /\ UNION {QueuedNext(w) : w \in Workers}
                        = 0 .. (N - 1) * Q - 1
                 /\ chan'[0] = <<>>
           /\ FramePosted =>
                 /\ pc'[0] # pc[0]
                 /\ \A w \in Workers : pc'[w] = pc[w]]_vars

\* two workers have their whole pre-queue waiting and rank 0 is in its loop
PreQueued ==
    /\ nRanks = 3
    /\ pc[0] = "loop"
    /\ i[0] = startFrame(nFrames[0])
    /\ \A w \in Workers : Len(chan[w]) = preQueue(nFrames[0])
    /\ Queued(1) \cap Queued(2) = {}

\* C21: one DONE in flight.  A worker about to receive a FRAME has no DONE
\* send that it posted and did not wait on, and the handle it waits on after
\* its loop was set by a DONE send.
OneDoneInFlight ==
    \A w \in Workers :
        /\ pc[w] = "recv" => clientRequest[w] # "active"
        /\ pc[w] = "finalWait" => clientRequest[w] # "uninit"

\* the number of FRAME_DONE messages sent and not yet received by rank 0
PendingDone == SumSeq([k \in 1 .. nRanks - 1 |-> Len(doneChan[k])])

\* the same number in the next state
PendingDoneNext == SumSeq([k \in 1 .. nRanks - 1 |-> Len(doneChan'[k])])

\* rank 0 runs one iteration of its loop without a FRAME_DONE: lines 266-293
LocalStep == pc[0] = "loop" /\ pc'[0] = "loop" /\ i'[0] = i[0] + 1

\* rank 0 takes a FRAME_DONE that its probe found: lines 241-242
RecvStep == pc[0] = "loop" /\ pc'[0] = "wait"

\* rank 0 ends the iteration that took a FRAME_DONE: lines 243-249
DispatchStep == pc[0] = "wait" /\ pc'[0] = "loop"

\* C22: coordinator self-help.  With more than one rank, an iteration k of
\* rank 0's loop either takes no FRAME_DONE and converts frame k itself, or
\* takes exactly one FRAME_DONE, converts nothing and sends k to a worker;
\* and rank 0 is never held in the loop by a wait that cannot return.
CoordinatorSelfHelp ==
    [][nRanks > 1 =>
        /\ LocalStep =>
              /\ PendingDoneNext = PendingDone
              /\ chan' = chan
              /\ calls'[0] # calls[0]
              /\ calls'[0][Len(calls'[0])].frame = i[0]
        /\ RecvStep => PendingDoneNext = PendingDone - 1
        /\ DispatchStep =>
              /\ calls'[0] = calls[0]
              /\ PendingDoneNext = PendingDone
              /\ \E w \in Workers :
                     /\ Len(chan'[w]) = Len(chan[w]) + 1
                     /\ chan'[w][Len(chan'[w])].val = i[0]
        /\ pc[0] = "wait" /\ frame[0] \in requests => FrameSent(frame[0])]_vars

\* the position in a neuron's slice where its section j begins
SliceStart(n, j) == SumSeq(SubSeq(counts[n + 1], 1, j - 1))

\* C23: slice construction.  For every frame that was loaded and every
\* neuron, the slice handed to writeFrame holds, section after section, the
\* values frame[offsets[i][j] .. offsets[i][j] + counts[i][j]); it is as
\* long as the neuron has compartments, and a section with the sentinel
\* offset has the count 0 and adds no value.
SliceConstruction ==
    \A r \in Ranks : \A x \in CallsOf(r, "writeFrame") :
        LET c    == calls[r][x]
            data == InLoadFrame(c.t)
            n    == c.gid
        IN  data # NullFrame =>
                /\ Len(c.slice) = SumSeq(counts[n + 1])
                /\ Len(c.slice) = NumCompartments(counts, n)
                /\ \A j \in DOMAIN counts[n + 1] :
                       /\ offsets[n + 1][j] = Sentinel => counts[n + 1][j] = 0
                       /\ \A k \in 0 .. counts[n + 1][j] - 1 :
                              c.slice[SliceStart(n, j) + k + 1]
                                  = data[offsets[n + 1][j] + k + 1]

\* a neuron with compartments before and after a section without any was
\* written for a frame other than the first
SlicedAroundSentinel ==
    \E r \in Ranks : \E x \in CallsOf(r, "writeFrame") :
        LET c == calls[r][x]
        IN  /\ c.frame > 0
            /\ \E j \in DOMAIN counts[c.gid + 1] :
                   /\ offsets[c.gid + 1][j] = Sentinel
                   /\ SliceStart(c.gid, j) > 0
                   /\ SliceStart(c.gid, j) < Len(c.slice)

\* C24: send-handle bookkeeping.  The frame of a FRAME_DONE that rank 0
\* received has a request in rank 0's map, no request of a stop frame takes
\* the key of a frame's request, and rank 0 is at the barrier only with
\* every request left in its map complete.
HandleBookkeeping ==
    /\ pc[0] = "wait" => frame[0] \in requests /\ frame[0] >= 0
    /\ pc[0] = "stop" => \A w \in Workers : (0 - w) \notin requests
    /\ \A key \in requests : key < 0 => (0 - key) \in Workers
    /\ pc[0] = "barrier" => \A key \in requests : FrameSent(key)

\* C25: pre-queue depth.  Once a rank has computed preQueue and startFrame
\* from an nFrames of hi * 2^WordBits + lo, preQueue is the larger of 2 and
\* floor(nFrames / 512), it is at least 2, it is 2 for nFrames < 1536, and
\* startFrame is (nRanks - 1) * preQueue.
PreQueueDepthFormula ==
    \A r \in Ranks :
        pc[r] = "check" =>
            LET n == nFrames[r]
                Q == frame[r]
            IN  /\ n.hi < 2^(IntBits - 1 - (WordBits - QueueShift))
                /\ Q = Max(2, n.hi * 2^(WordBits - QueueShift) + n.lo \div 512)
                /\ Q >= 2
                /\ (n.hi = 0 /\ n.lo < 1536) => Q = 2
                /\ i[r] = (nRanks - 1) * Q

\* worker w returns from the MPI_Recv of line 260 in this step
WorkerRecvStep(w) == pc[w] = "recv" /\ pc'[w] # "recv"

\* the FRAME message was posted by line 246, in answer to a FRAME_DONE
Dispatched(msg) == msg.key >= startFrame(nFrames[0])

\* C26: payload stability.  The frame index a worker receives for a FRAME
\* that rank 0 dispatched in its loop is the loop index rank 0 held when it
\* posted the send.
PayloadStability ==
    [][\A w \in Workers :
          (WorkerRecvStep(w) /\ Dispatched(Head(chan[w])))
              => frame'[w] = Head(chan[w]).val]_vars

====
